---- MODULE Spec2Model ----
(***************************************************************************)
(* QR code API (src/app.py): six request handlers over one object store.   *)
(* Every storage call of a handler is one atomic step; handlers of         *)
(* different requests interleave between their storage calls.              *)
(*                                                                         *)
(* Strings that serve as object keys are modelled as a base name followed  *)
(* by a sequence of suffix tokens (".png", ".metadata"); the base names    *)
(* hold no ".png".  Base 0 is a caller-chosen name, bases 1..NUuid are the *)
(* uuid4 values drawn by create_qr_code.                                   *)
(*                                                                         *)
(* Uploaded and generated images are PNG files.  A PNG file starts with    *)
(* byte 0x89, so bytes.decode() raises on it and it never reaches eval().  *)
(***************************************************************************)
EXTENDS Integers, Sequences, FiniteSets, TLC

\* ------------------------------------------------------------------ bounds
NSlots == 2        \* requests that can be in flight at once
MaxReq == 3        \* requests started in one run
MaxClock == 1      \* distinct readings of datetime.now()
MaxFaults == 1     \* storage calls that fail in one run
NUuid == 1         \* uuid4 values create_qr_code can draw in one run
MaxBootReq == 2    \* requests started in a run that begins with the startup

\* --------------------------------------------------------- program constants
DefaultSize == 300      \* x_qr_size: int = Header(300)
AccessSize == 0         \* update_metadata(..., "", 0, is_access=True)
InitialAccessCount == 1 \* "access_count": 1

VARIABLES backend, store, clock, req, resp, issued, minted, nreq, nfaults,
          life, live, born, deleted, boot

vars == <<backend, store, clock, req, resp, issued, minted, nreq, nfaults,
          life, live, born, deleted, boot>>

Slots == 1..NSlots
Uuids == 1..NUuid
CallerBase == 0

\* ------------------------------------------------------------------- keys
Key(b, s) == [base |-> b, sfx |-> s]

\* code_id.replace(".png", ""): every occurrence of ".png" is removed
StripPng(id) == Key(id.base, SelectSeq(id.sfx, LAMBDA t : t # ".png"))

\* f"{code_id}.metadata"
MetadataBlobName(id) == Key(id.base, Append(id.sfx, ".metadata"))

\* the sidecar key create, upload, get image and delete resolve for code_id
Sidecar(id) == MetadataBlobName(StripPng(id))

\* f"{uuid.uuid4()}.png"
UuidPng(u) == Key(u, <<".png">>)

\* code_ids a caller can put in the path of PUT, GET, HEAD and DELETE
CallerIds == { Key(CallerBase, <<>>), Key(CallerBase, <<".png">>),
               Key(CallerBase, <<".metadata">>) }

ImageIds == CallerIds \cup { UuidPng(u) : u \in Uuids }

KnownIds == CallerIds \cup { UuidPng(u) : u \in issued }

\* ids a caller can put in the path of GET .../metadata
MetaIds == KnownIds \cup { StripPng(UuidPng(u)) : u \in issued }

\* the blob names update_metadata writes
SidecarKeys == { Sidecar(x) : x \in ImageIds }

Keys == ImageIds \cup SidecarKeys

\* ------------------------------------------------------------------ values
PyNone == [isnone |-> TRUE, s |-> ""]
PyStr(s) == [isnone |-> FALSE, s |-> s]

NoMd == [code_id |-> Key(CallerBase, <<>>), data |-> PyNone, size |-> 0,
         created_at |-> 0, last_accessed |-> 0, access_count |-> 0]

Absent == [kind |-> "absent", img |-> "", md |-> NoMd]

\* generate_qr_code(data, size): the PNG bytes of the rendered image
generate_qr_code(data, size) == [kind |-> "png", img |-> data.s, md |-> NoMd]

\* file.file of an upload declared image/png
UploadedFile == [kind |-> "png", img |-> "file", md |-> NoMd]

\* str(metadata).encode(): the repr of a dict of str, int and None values
StrEncode(md) == [kind |-> "text", img |-> "", md |-> md]

\* eval(metadata_content.decode()): raises on PNG bytes, and gives back the
\* dict on the repr of a dict of str, int and None values
EvalOk(content) == content.kind = "text"
Eval(content) == content.md

\* ---------------------------------------------------------------- storage
\* StorageProvider: the container holds at most one object per blob name
Lookup(k) == IF k \in DOMAIN store THEN store[k] ELSE Absent

\* StorageProvider.blob_exists
blob_exists(k) == Lookup(k).kind # "absent"

\* StorageProvider.upload_blob: overwrite=True / put_object
upload_blob(k, content) == [store EXCEPT ![k] = content]

\* StorageProvider.delete_blob
delete_blob(k) == [store EXCEPT ![k] = Absent]

\* delete_blob of a blob that is not there: BlobClient.delete_blob raises
\* ResourceNotFoundError, Minio.remove_object returns without an error
DeleteAbsentRaises == backend = "azure"

\* blob_exists when the storage call fails: AzureBlobStorageProvider catches
\* every Exception and returns False; MinioStorageProvider catches S3Error
\* and returns False, and lets any other exception (a connection error)
\* propagate
ExistsFaultOutcomes == IF backend = "azure" THEN {"false"} ELSE {"false", "raise"}

CanFault == nfaults < MaxFaults

\* -------------------------------------------------------- update_metadata
\* faulty variant: the fresh record starts its count at 0
FreshMetadataFromZero(code_id, data, size, now) ==
    [code_id |-> code_id, data |-> data, size |-> size,
     created_at |-> now, last_accessed |-> now,
     access_count |-> 0]

\* the except branch: a fresh record
FreshMetadata(code_id, data, size, now) ==
    [code_id |-> code_id, data |-> data, size |-> size,
     created_at |-> now, last_accessed |-> now,
     access_count |-> InitialAccessCount]

\* faulty variant: an access event that only sets last_accessed
AccessUpdateKeepsCount(md, now) == [md EXCEPT !.last_accessed = now]

\* faulty variant: an access event that counts twice
AccessUpdateCountsTwice(md, now) ==
    [md EXCEPT !.access_count = @ + 2, !.last_accessed = now]

\* faulty variant: an access event that counts down
AccessUpdateCountsDown(md, now) ==
    [md EXCEPT !.access_count = @ - 1, !.last_accessed = now]

\* the is_access branch on the record read
AccessUpdate(md, now) ==
    [md EXCEPT !.access_count = @ + 1, !.last_accessed = now]

\* faulty variant: an upsert stamps the record it read as created now
ExistingMetadataRecreated(md, now, is_access) ==
    [md EXCEPT !.created_at = now]

\* faulty variant: every upsert counts as an access event
ExistingMetadataTouched(md, now, is_access) ==
    [md EXCEPT !.access_count = @ + 1, !.last_accessed = now]

\* the record update_metadata holds after a successful read and eval
ExistingMetadata(md, now, is_access) ==
    IF is_access THEN AccessUpdate(md, now) ELSE md

\* QRCodeMetadata(**metadata): data is declared str, so None is rejected
ValidMetadata(md) == ~md.data.isnone

\* ---------------------------------------------------------------- requests
Idle == [op |-> "none", code_id |-> Key(CallerBase, <<>>), pc |-> "idle",
         ctype |-> "", data |-> PyNone, size |-> 0, now |-> 0, md |-> NoMd,
         rd |-> NoMd, parsed |-> FALSE,
         solo |-> TRUE, wrote |-> 0, mdfail |-> FALSE, had |-> FALSE, gone |-> {}]

NoResp == [op |-> "none", code_id |-> Key(CallerBase, <<>>), status |-> 0,
           body |-> NoMd, ctype |-> "", data |-> PyNone, md |-> NoMd,
           rd |-> NoMd, parsed |-> FALSE,
           solo |-> TRUE, wrote |-> 0, mdfail |-> FALSE, gone |-> {}]

Busy(q) == req[q].pc # "idle"

IsAccess(r) == r.op = "GET"

\* the blob names a request reads, writes or deletes
KeysOf(op, id) ==
    IF op = "META" THEN {MetadataBlobName(id)} ELSE {id, Sidecar(id)}

Overlap(r1, r2) ==
    KeysOf(r1.op, r1.code_id) \cap KeysOf(r2.op, r2.code_id) # {}

\* ------------------------------------------------------------ bookkeeping
\* life[x]: what the requests on the blobs of code_id x amount to so far.
\*   none   no request that writes or deletes a blob of x has started
\*   clean  a create/upload of x answered 201 with no other request on its
\*          blobs in flight, and only GET image requests on x started since
\*          (hits of them answered 200); fresh when it was a create
\*   gone   a DELETE of x answered 204 and no request that writes a blob of
\*          x has started since; quiet when no request on a blob of x was
\*          in flight during it; had when it found the image to delete
\*   dirty  anything else
LifeNone == [st |-> "none", fresh |-> FALSE, quiet |-> FALSE, had |-> FALSE, hits |-> 0]
LifeDirty == [LifeNone EXCEPT !.st = "dirty"]
LifeClean(fresh) == [LifeNone EXCEPT !.st = "clean", !.fresh = fresh]
LifeGone(quiet, had) == [LifeNone EXCEPT !.st = "gone", !.quiet = quiet, !.had = had]

\* a starting request r may write or delete a blob of x (a GET image of x
\* itself only rewrites the sidecar x already has)
Disturbs(r, x) ==
    /\ KeysOf(r.op, r.code_id) \cap KeysOf("GET", x) # {}
    /\ \/ r.op = "DELETE"
       \/ r.op = "PUT" /\ r.ctype = "image/png"
       \/ r.op = "GET" /\ r.code_id # x

LifeBegun(r) ==
    [x \in ImageIds |-> IF Disturbs(r, x) THEN LifeDirty ELSE life[x]]

LifeAfter(l, r, status) ==
    CASE r.op \in {"POST", "PUT"} /\ status = 201 ->
            IF r.solo THEN LifeClean(r.op = "POST")
            ELSE IF l.st = "gone" THEN l ELSE LifeDirty
      [] r.op \in {"POST", "PUT"} /\ status = 500 -> LifeDirty
      [] r.op = "GET" /\ status = 200 ->
            IF l.st = "clean" THEN [l EXCEPT !.hits = @ + 1] ELSE l
      [] r.op = "GET" /\ status # 200 ->
            IF l.st = "clean" THEN LifeDirty ELSE l
      [] r.op = "DELETE" /\ status = 204 -> LifeGone(r.solo, r.had)
      [] r.op = "DELETE" /\ status # 204 -> LifeDirty
      [] OTHER -> l

\* born[k]: the record update_metadata keeps under sidecar key k.
\*   at    the created_at of the first record written under k since k was
\*         last deleted (-1: none written since)
\*   kept  every upsert that wrote under k after that first one had read a
\*         record there, and none was in flight with a record it had read
\*         when k was last deleted
NotBorn == [at |-> -1, kept |-> TRUE]

\* update_metadata of request r has written r.md under k
BornAfterWrite(k, r) ==
    IF born[k].at = -1 THEN [born EXCEPT ![k].at = r.md.created_at]
    ELSE IF r.parsed THEN born
    ELSE [born EXCEPT ![k].kept = FALSE]

\* delete_blob(k) has removed blob k
BornAfterDelete(k) ==
    IF k \in SidecarKeys
    THEN [born EXCEPT ![k] =
            [at |-> -1,
             kept |-> \A q \in Slots :
                        ~(/\ req[q].pc \in {"md_upload"}
                          /\ Sidecar(req[q].code_id) = k
                          /\ req[q].parsed)]]
    ELSE born

\* --------------------------------------------------------- requests in flight
\* The requests in flight fill the slots from 1 up, in their order of
\* arrival.  A request arrives with its handler's first storage call.
Admit(p) ==
    /\ boot.phase = "serving"
    /\ nreq < MaxReq
    /\ ~Busy(p)
    /\ \A q \in Slots : q < p => Busy(q)

\* the code_ids whose image a GET image asks for, or whose record a metadata
\* fetch asks for (by the code_id itself or by it without its ".png")
Asked(r) ==
    CASE r.op = "GET" -> {r.code_id}
      [] r.op = "META" -> { x \in ImageIds : r.code_id \in {x, StripPng(x)} }
      [] OTHER -> {}

\* request r as it arrives in slot p: solo while no request in flight
\* touches one of its blobs; gone holds the code_ids it asks for whose DELETE
\* has answered 204
Arrive(p, r) ==
    [r EXCEPT !.solo = \A o \in Slots \ {p} : Busy(o) => ~Overlap(req[o], r),
              !.gone = { x \in Asked(r) : life[x].st = "gone" }]

\* the other requests in flight once r has arrived
Others(r) ==
    [q \in Slots |-> IF Busy(q) /\ Overlap(req[q], r)
                     THEN [req[q] EXCEPT !.solo = FALSE] ELSE req[q]]

Compact(rq) ==
    LET busy == SelectSeq(rq, LAMBDA r : r.pc # "idle")
    IN [i \in Slots |-> IF i <= Len(busy) THEN busy[i] ELSE Idle]

\* the handler of slot p, its request now r, goes on to its next storage call
GotoFrom(rq, lf, p, r) ==
    /\ req' = [rq EXCEPT ![p] = r]
    /\ life' = lf
    /\ UNCHANGED <<resp, issued, live>>

\* the handler of slot p, its request now r, returns (or raises) with this
\* status and body
RespondFrom(rq, lf, p, r, status, body) ==
    /\ resp' = [op |-> r.op, code_id |-> r.code_id, status |-> status,
                body |-> body, ctype |-> r.ctype, data |-> r.data,
                md |-> r.md, rd |-> r.rd, parsed |-> r.parsed,
                solo |-> r.solo, wrote |-> r.wrote, mdfail |-> r.mdfail,
                gone |-> r.gone]
    /\ req' = Compact([rq EXCEPT ![p] = Idle])
    /\ issued' = IF r.op = "POST" /\ status = 201
                 THEN issued \cup {r.code_id.base} ELSE issued
    /\ live' = IF r.op \in {"POST", "PUT"} /\ status = 201
               THEN [live EXCEPT ![r.code_id] = TRUE]
               ELSE IF r.op = "DELETE" /\ status = 204
                    THEN [live EXCEPT ![r.code_id] = FALSE]
                    ELSE live
    /\ life' = IF r.code_id \in ImageIds
               THEN [lf EXCEPT ![r.code_id] = LifeAfter(lf[r.code_id], r, status)]
               ELSE lf

Goto(p, r) == GotoFrom(req, life, p, r)
Respond(p, r, status, body) == RespondFrom(req, life, p, r, status, body)

Fault == nfaults' = nfaults + 1
NoFault == nfaults' = nfaults

NewReq(op, id, ctype, data, size) ==
    [Idle EXCEPT !.op = op, !.code_id = id, !.pc = "arrived", !.ctype = ctype,
                 !.data = data, !.size = size]

\* ------------------------------------------- create_qr_code, upload_qr_code
\* the image of a create (rendered) or of an upload (the file sent)
ImageOf(r) ==
    IF r.op = "POST" THEN generate_qr_code(r.data, r.size) ELSE UploadedFile

\* faulty variant: the handler goes on to the metadata without the image
\* having been stored
ImgUploadDropped(rq, lf, p, r) ==
    /\ GotoFrom(rq, lf, p, [r EXCEPT !.pc = "md_now"])
    /\ UNCHANGED store
    /\ NoFault

\* storage.upload_blob(code_id, ..., content_type="image/png"); no handler
\* catches its exception
ImgUpload(rq, lf, p, r) ==
    \/ /\ store' = upload_blob(r.code_id, ImageOf(r))
       /\ GotoFrom(rq, lf, p, [r EXCEPT !.pc = "md_now", !.wrote = @ + 1])
       /\ NoFault
    \/ /\ CanFault /\ Fault
       /\ RespondFrom(rq, lf, p, r, 500, NoMd)
       /\ UNCHANGED store

\* POST /api/qrcodes: code_id = f"{uuid.uuid4()}.png", a value never drawn
\* before, then the upload of the rendered image
create_qr_code(p) ==
    \E u \in Uuids \ minted : \E d \in {"d1"} : \E sz \in {200} :
       LET r == NewReq("POST", UuidPng(u), "image/png", PyStr(d), sz) IN
       /\ Admit(p)
       /\ ImgUpload(Others(r), LifeBegun(r), p, Arrive(p, r))
       /\ minted' = minted \cup {u}
       /\ nreq' = nreq + 1
       /\ UNCHANGED <<backend, boot, clock, born, deleted>>

\* faulty variant: the upload of the file without the content type check
UploadUnchecked(rq, lf, p, r) == ImgUpload(rq, lf, p, r)

\* the content type check of upload_qr_code, then the upload of the file
UploadChecked(rq, lf, p, r) ==
    IF r.ctype # "image/png"
    THEN RespondFrom(rq, lf, p, r, 400, NoMd) /\ UNCHANGED store /\ NoFault
    ELSE ImgUpload(rq, lf, p, r)

\* PUT /api/qrcodes/{code_id}: x_qr_data is None without the header
upload_qr_code(p) ==
    \E id \in KnownIds :
    \E h \in {<<"image/png", PyNone>>, <<"image/png", PyStr("d2")>>,
              <<"text/plain", PyNone>>} :
       LET r == NewReq("PUT", id, h[1], h[2], DefaultSize) IN
       /\ Admit(p)
       /\ UploadChecked(Others(r), LifeBegun(r), p, Arrive(p, r))
       /\ nreq' = nreq + 1
       /\ UNCHANGED <<backend, boot, clock, minted, born, deleted>>

\* ----------------------------------------------------------- update_metadata
\* now = datetime.now(timezone.utc): the clock does not run backwards
MdNow(p) ==
    /\ req[p].pc = "md_now"
    /\ \E t \in clock..(IF clock < MaxClock THEN clock + 1 ELSE clock) :
          /\ clock' = t
          /\ Goto(p, [req[p] EXCEPT !.pc = "md_read", !.now = t])
    /\ UNCHANGED <<backend, boot, store, minted, nreq, nfaults, born, deleted>>

\* the record update_metadata falls back to in its except branch
FreshOf(r) == FreshMetadata(StripPng(r.code_id), r.data, r.size, r.now)

\* the record update_metadata holds at the end of its try/except, given
\* the sidecar content the storage returns
MetadataRead(r, content) ==
    IF content.kind # "absent" /\ EvalOk(content)
    THEN ExistingMetadata(Eval(content), r.now, IsAccess(r))
    ELSE FreshOf(r)

\* storage.blob_exists(metadata_blob_name), storage.download_blob, the drain
\* of the stream and eval.  One step: a sidecar that goes away or changes
\* between the two calls gives what the same read gives a moment later, and
\* every exception, like a blob_exists of False, ends in the fresh record.
MdRead(p) ==
    /\ req[p].pc = "md_read"
    /\ \/ LET c == Lookup(Sidecar(req[p].code_id)) IN
          /\ Goto(p, [req[p] EXCEPT !.pc = "md_upload",
                        !.md = MetadataRead(req[p], c),
                        !.parsed = c.kind # "absent" /\ EvalOk(c),
                        !.rd = IF c.kind # "absent" /\ EvalOk(c) THEN Eval(c) ELSE NoMd])
          /\ NoFault
       \/ /\ CanFault /\ Fault
          /\ Goto(p, [req[p] EXCEPT !.pc = "md_upload", !.md = FreshOf(req[p])])
    /\ UNCHANGED <<backend, boot, store, clock, minted, nreq, born, deleted>>

\* faulty variant: create and upload catch the exception as get_qr_code does
UpsertFailedNotFound(r) == 404

\* what the caller of update_metadata does when update_metadata raises:
\* get_qr_code answers 404, create_qr_code and upload_qr_code have no handler
UpsertFailedStatus(r) == IF r.op = "GET" THEN 404 ELSE 500

\* the content update_metadata writes to the sidecar
MetadataWritten(r) == StrEncode(r.md)

\* storage.upload_blob(metadata_blob_name, str(metadata).encode(), ...), which
\* is outside the try block, and the return to the handler
MdUpload(p) ==
    /\ req[p].pc = "md_upload"
    /\ \/ /\ store' = upload_blob(Sidecar(req[p].code_id), MetadataWritten(req[p]))
          /\ IF req[p].op = "GET"
             THEN Goto(p, [req[p] EXCEPT !.pc = "get_download", !.wrote = @ + 1,
                                         !.md = Eval(MetadataWritten(req[p]))])
             ELSE Respond(p, [req[p] EXCEPT !.wrote = @ + 1,
                                            !.md = Eval(MetadataWritten(req[p]))],
                          201, NoMd)
          /\ born' = BornAfterWrite(Sidecar(req[p].code_id), req[p])
          /\ NoFault
       \/ /\ CanFault /\ Fault
          /\ Respond(p, [req[p] EXCEPT !.mdfail = TRUE],
                     UpsertFailedStatus(req[p]), NoMd)
          /\ UNCHANGED <<store, born>>
    /\ UNCHANGED <<backend, boot, clock, minted, nreq, deleted>>

\* ---------------------------------------------------------------- get_qr_code
\* GET /api/qrcodes/{code_id}: storage.blob_exists(code_id); False, and an
\* exception the handler catches, both answer 404
get_qr_code(p) ==
    \E id \in KnownIds :
       LET r0 == NewReq("GET", id, "", PyStr(""), AccessSize)
           r == Arrive(p, r0)
           rq == Others(r0)
           lf == LifeBegun(r0)
       IN
       /\ Admit(p)
       /\ \/ /\ blob_exists(id)
             /\ GotoFrom(rq, lf, p, [r EXCEPT !.pc = "md_now"])
             /\ NoFault
          \/ /\ ~blob_exists(id)
             /\ RespondFrom(rq, lf, p, r, 404, NoMd)
             /\ NoFault
          \/ /\ CanFault /\ Fault
             /\ RespondFrom(rq, lf, p, r, 404, NoMd)
       /\ nreq' = nreq + 1
       /\ UNCHANGED <<backend, boot, store, clock, minted, born, deleted>>

\* StreamingResponse(storage.download_blob(code_id)): the download is opened
\* inside the try block
GetDownload(p) ==
    /\ req[p].pc = "get_download"
    /\ \/ /\ blob_exists(req[p].code_id)
          /\ Respond(p, req[p], 200, NoMd)
          /\ NoFault
       \/ /\ ~blob_exists(req[p].code_id)
          /\ Respond(p, req[p], 404, NoMd)
          /\ NoFault
       \/ /\ CanFault /\ Fault
          /\ Respond(p, req[p], 404, NoMd)
    /\ UNCHANGED <<backend, boot, store, clock, minted, nreq, born, deleted>>

\* ------------------------------------------------------- get_qr_code_metadata
\* GET /api/qrcodes/{code_id}/metadata: storage.blob_exists(f"{code_id}.metadata")
get_qr_code_metadata(p) ==
    \E id \in MetaIds :
       LET r0 == NewReq("META", id, "", PyNone, 0)
           r == Arrive(p, r0)
           rq == Others(r0)
           lf == LifeBegun(r0)
       IN
       /\ Admit(p)
       /\ \/ /\ blob_exists(MetadataBlobName(id))
             /\ GotoFrom(rq, lf, p, [r EXCEPT !.pc = "meta_download"])
             /\ NoFault
          \/ /\ ~blob_exists(MetadataBlobName(id))
             /\ RespondFrom(rq, lf, p, r, 404, NoMd)
             /\ NoFault
          \/ /\ CanFault /\ Fault
             /\ RespondFrom(rq, lf, p, r, 404, NoMd)
       /\ nreq' = nreq + 1
       /\ UNCHANGED <<backend, boot, store, clock, minted, born, deleted>>

\* the answer of get_qr_code_metadata to the content it downloaded
MetaStatus(content) ==
    IF content.kind # "absent" /\ EvalOk(content) /\ ValidMetadata(Eval(content))
    THEN 200 ELSE 404

\* download_blob, the drain, eval and QRCodeMetadata(**metadata)
MetaDownload(p) ==
    /\ req[p].pc = "meta_download"
    /\ \/ LET c == Lookup(MetadataBlobName(req[p].code_id)) IN
          /\ Respond(p, req[p], MetaStatus(c),
                     IF MetaStatus(c) = 200 THEN Eval(c) ELSE NoMd)
          /\ NoFault
       \/ /\ CanFault /\ Fault
          /\ Respond(p, req[p], 404, NoMd)
    /\ UNCHANGED <<backend, boot, store, clock, minted, nreq, born, deleted>>

\* --------------------------------------------------------------- check_qr_code
\* the answer of check_qr_code to what blob_exists returned
HeadStatus(found) == IF found THEN 200 ELSE 404

\* HEAD /api/qrcodes/{code_id}: storage.blob_exists(code_id), which returns
\* False when the storage call fails
check_qr_code(p) ==
    \E id \in KnownIds :
       LET r0 == NewReq("HEAD", id, "", PyNone, 0)
           r == Arrive(p, r0)
           rq == Others(r0)
           lf == LifeBegun(r0)
       IN
       /\ Admit(p)
       /\ \/ /\ RespondFrom(rq, lf, p, r, HeadStatus(blob_exists(id)), NoMd)
             /\ NoFault
          \/ /\ CanFault /\ Fault
             /\ RespondFrom(rq, lf, p, r, HeadStatus(FALSE), NoMd)
       /\ nreq' = nreq + 1
       /\ UNCHANGED <<backend, boot, store, clock, minted, born, deleted>>

\* -------------------------------------------------------------- delete_qr_code
\* DELETE /api/qrcodes/{code_id}: storage.delete_blob(code_id)
delete_qr_code(p) ==
    \E id \in KnownIds :
       LET r0 == NewReq("DELETE", id, "", PyNone, 0)
           r == Arrive(p, r0)
           rq == Others(r0)
           lf == LifeBegun(r0)
       IN
       /\ Admit(p)
       /\ \/ /\ blob_exists(id) \/ ~DeleteAbsentRaises
             /\ store' = delete_blob(id)
             /\ GotoFrom(rq, lf, p, [r EXCEPT !.pc = "del_md_exists", !.wrote = @ + 1,
                                             !.had = blob_exists(id)])
             /\ born' = BornAfterDelete(id)
             /\ NoFault
          \/ /\ ~blob_exists(id) /\ DeleteAbsentRaises
             /\ RespondFrom(rq, lf, p, r, 404, NoMd)
             /\ UNCHANGED <<store, born>>
             /\ NoFault
          \/ /\ CanFault /\ Fault
             /\ RespondFrom(rq, lf, p, r, 404, NoMd)
             /\ UNCHANGED <<store, born>>
       /\ nreq' = nreq + 1
       /\ deleted' = TRUE
       /\ UNCHANGED <<backend, boot, clock, minted>>

\* storage.blob_exists(metadata_blob_name)
DelMdExists(p) ==
    /\ req[p].pc = "del_md_exists"
    /\ \/ /\ blob_exists(Sidecar(req[p].code_id))
          /\ Goto(p, [req[p] EXCEPT !.pc = "del_md"])
          /\ NoFault
       \/ /\ ~blob_exists(Sidecar(req[p].code_id))
          /\ Respond(p, req[p], 204, NoMd)
          /\ NoFault
       \/ /\ CanFault /\ Fault
          /\ \E o \in ExistsFaultOutcomes :
                Respond(p, req[p], IF o = "false" THEN 204 ELSE 404, NoMd)
    /\ UNCHANGED <<backend, boot, store, clock, minted, nreq, born, deleted>>

\* storage.delete_blob(metadata_blob_name)
DelMd(p) ==
    /\ req[p].pc = "del_md"
    /\ \/ /\ blob_exists(Sidecar(req[p].code_id)) \/ ~DeleteAbsentRaises
          /\ store' = delete_blob(Sidecar(req[p].code_id))
          /\ Respond(p, [req[p] EXCEPT !.wrote = @ + 1], 204, NoMd)
          /\ born' = BornAfterDelete(Sidecar(req[p].code_id))
          /\ NoFault
       \/ /\ ~blob_exists(Sidecar(req[p].code_id)) /\ DeleteAbsentRaises
          /\ Respond(p, req[p], 404, NoMd)
          /\ UNCHANGED <<store, born>>
          /\ NoFault
       \/ /\ CanFault /\ Fault
          /\ Respond(p, req[p], 404, NoMd)
          /\ UNCHANGED <<store, born>>
    /\ UNCHANGED <<backend, boot, clock, minted, nreq, deleted>>

\* ------------------------------------------------------------------ startup
\* what storage.initialize() meets at the backend: the container or bucket
\* is not there and can be created, it is already there, the backend cannot
\* be reached, or the backend answers the call with an error (access denied,
\* an invalid name)
StartupConditions == {"created", "exists", "unreachable", "refused"}

\* initialize() raises.  AzureBlobStorageProvider builds its clients without
\* a network call and catches every Exception of create_container;
\* MinioStorageProvider catches S3Error, the error the backend answers with,
\* and lets the connection error of bucket_exists propagate
InitializeRaises(b, c) == b = "minio" /\ c = "unreachable"

\* storage.initialize(), at import of the module: an exception ends the
\* process before the application serves
initialize ==
    /\ boot.phase = "starting"
    /\ boot' = [boot EXCEPT !.phase =
                  IF InitializeRaises(backend, boot.cond) THEN "dead"
                  ELSE "serving"]
    /\ UNCHANGED <<backend, store, clock, req, resp, issued, minted, nreq,
                   nfaults, life, live, born, deleted>>

\* ------------------------------------------------------------ specification
\* STORAGE_TYPE selects the provider once
InitStorage ==
    /\ backend \in {"azure", "minio"}
    /\ store = [k \in Keys |-> Absent]
    /\ clock = 0
    /\ req = [p \in Slots |-> Idle]
    /\ resp = NoResp
    /\ issued = {}
    /\ minted = {}
    /\ nreq = 0
    /\ nfaults = 0
    /\ life = [x \in ImageIds |-> LifeNone]
    /\ live = [x \in ImageIds |-> FALSE]
    /\ born = [k \in SidecarKeys |-> NotBorn]
    /\ deleted = FALSE

\* the service once storage.initialize() has run and found its container
Init ==
    /\ InitStorage
    /\ boot = [phase |-> "serving", cond |-> "exists"]

\* the process as it starts
InitBoot ==
    /\ InitStorage
    /\ boot \in [phase : {"starting"}, cond : StartupConditions]

Next ==
    \E p \in Slots :
       \/ create_qr_code(p) \/ upload_qr_code(p) \/ get_qr_code(p)
       \/ get_qr_code_metadata(p) \/ check_qr_code(p) \/ delete_qr_code(p)
       \/ MdNow(p) \/ MdRead(p) \/ MdUpload(p)
       \/ GetDownload(p)
       \/ MetaDownload(p)
       \/ DelMdExists(p) \/ DelMd(p)

Spec == Init /\ [][Next]_vars

\* the startup, then the requests
BootBound == nreq < MaxBootReq

NextBoot ==
    \/ initialize
    \/ \E p \in Slots :
          \/ BootBound /\ create_qr_code(p)
          \/ BootBound /\ upload_qr_code(p)
          \/ BootBound /\ get_qr_code(p)
          \/ BootBound /\ get_qr_code_metadata(p)
          \/ BootBound /\ check_qr_code(p)
          \/ BootBound /\ delete_qr_code(p)
          \/ MdNow(p) \/ MdRead(p) \/ MdUpload(p)
          \/ GetDownload(p)
          \/ MetaDownload(p)
          \/ DelMdExists(p) \/ DelMd(p)

SpecBoot == InitBoot /\ [][NextBoot]_vars

\* the service after one create_qr_code has answered 201: the image and its
\* record, access_count 1, are stored and nothing is in flight; the requests
\* counted from here on are the GET image requests that follow
CreatedId == UuidPng(1)

InitGets ==
    /\ backend \in {"azure", "minio"}
    /\ store = [k \in Keys |->
                 IF k = CreatedId THEN generate_qr_code(PyStr("d1"), 200)
                 ELSE IF k = Sidecar(CreatedId)
                 THEN StrEncode(FreshMetadata(StripPng(CreatedId),
                                              PyStr("d1"), 200, 0))
                 ELSE Absent]
    /\ clock = 0
    /\ req = [p \in Slots |-> Idle]
    /\ resp = NoResp
    /\ issued = {CreatedId.base}
    /\ minted = {CreatedId.base}
    /\ nreq = 0
    /\ nfaults = 0
    /\ life = [x \in ImageIds |->
                 IF x = CreatedId THEN LifeClean(TRUE) ELSE LifeNone]
    /\ live = [x \in ImageIds |-> x = CreatedId]
    /\ born = [k \in SidecarKeys |->
                 IF k = Sidecar(CreatedId) THEN [at |-> 0, kept |-> TRUE]
                 ELSE NotBorn]
    /\ deleted = FALSE
    /\ boot = [phase |-> "serving", cond |-> "exists"]

\* GET image requests only
NextGets ==
    \E p \in Slots :
       \/ get_qr_code(p)
       \/ MdNow(p) \/ MdRead(p) \/ MdUpload(p)
       \/ GetDownload(p)

SpecGets == InitGets /\ [][NextGets]_vars

\* ------------------------------------------------------------------ claims
IsRecord(k) == Lookup(k).kind = "text"
Record(k) == Eval(Lookup(k))

\* no request in flight touches a blob of code_id x
Quiet(x) ==
    \A q \in Slots : Busy(q) =>
        KeysOf(req[q].op, req[q].code_id) \cap KeysOf("GET", x) = {}

\* the last answer is that of a metadata fetch for the code_id a create
\* returned, made alone after exactly one GET image of it answered 200, with
\* no other request on its blobs and no storage error
C1_Scenario ==
    /\ resp.op = "META" /\ resp.solo /\ nfaults = 0
    /\ \E u \in issued :
          /\ resp.code_id = StripPng(UuidPng(u))
          /\ life[UuidPng(u)] = [LifeClean(TRUE) EXCEPT !.hits = 1]

\* C1: without concurrent requests and storage errors, create, then one GET
\* image (200), then the metadata fetch: the record fetched has
\* access_count 2.
C1_CreateGetMetadata ==
    C1_Scenario => resp.status = 200 /\ resp.body.access_count = 2

C1_Witness ==
    C1_Scenario /\ resp.status = 200 /\ resp.body.access_count = 2

\* the last answer is that of a GET image or metadata fetch that arrived
\* after a DELETE of the code_id x it asks for had answered 204, no create,
\* upload or GET image that writes a blob of x having started since
AfterDelete(x) ==
    /\ resp.op \in {"GET", "META"}
    /\ x \in resp.gone
    /\ life[x].st = "gone"

\* C2 as stated: after a DELETE of a code_id has answered, a later GET image
\* and a later metadata fetch answer 404, whatever earlier requests on that
\* code_id interleave.
C2_Original ==
    \A x \in ImageIds : AfterDelete(x) => resp.status = 404

\* What holds of C2: after a DELETE of a code_id answered 204 with no other
\* request on its blobs in flight, and until a create, upload or GET image
\* that writes one of them starts, GET image answers 404; the metadata fetch
\* answers 404 too when no storage call has failed.
DeleteThenNotFound ==
    \A x \in ImageIds :
       AfterDelete(x) /\ life[x].quiet /\ (resp.op = "META" => nfaults = 0)
          => resp.status = 404

\* C3 as stated, for the HEAD requests made with no storage error so far and
\* no other request on the blobs of the code_id in flight: HEAD answers 200
\* exactly when a create or upload of the code_id has answered 201 and no
\* DELETE of it has answered 204 since.
C3_Original ==
    resp.op = "HEAD" /\ resp.solo /\ nfaults = 0 =>
       (resp.status = 200 <=> live[resp.code_id])

\* What holds of C3: with no storage error, HEAD answers 200 for a code_id whose
\* create or upload answered 201 undisturbed (no other request on its blobs
\* in flight, only GET image requests of it since), and 404 for a code_id no
\* request on whose blobs has started, or whose DELETE answered 204
\* undisturbed with no write to its blobs started since.
HeadFollowsLifecycle ==
    resp.op = "HEAD" /\ nfaults = 0 =>
       LET l == life[resp.code_id] IN
       /\ l.st = "clean" => resp.status = 200
       /\ l.st = "none" \/ (l.st = "gone" /\ l.quiet) => resp.status = 404

\* C4: an upload whose content type is not image/png answers 400 and has
\* made no storage write.
C4_RejectWritesNothing ==
    resp.op = "PUT" /\ resp.ctype # "image/png" =>
       resp.status = 400 /\ resp.wrote = 0

C4_Witness ==
    /\ resp.op = "PUT" /\ resp.ctype # "image/png" /\ resp.status = 400
    /\ \E k \in Keys : blob_exists(k)

\* C5 as stated: a GET image whose metadata upsert failed (the sidecar write
\* raised) still answers 200.
C5_Original ==
    resp.op = "GET" /\ resp.mdfail => resp.status = 200

SettledRecord(x) ==
    /\ life[x].st = "clean" /\ life[x].fresh
    /\ nfaults = 0 /\ Quiet(x)

\* C7: the access-count update is a read-modify-write without
\* serialization: every GET image that answered 200 wrote the count it read
\* plus one, so the stored count is at least 2 once one has answered and at
\* most 1 + the number that answered; the witness is the lost update, two
\* GET image requests answered 200 and the count at 2.
C7_LastWriterWins ==
    \A x \in ImageIds : SettledRecord(x) =>
       /\ IsRecord(Sidecar(x))
       /\ Record(Sidecar(x)).access_count <= InitialAccessCount + life[x].hits
       /\ Record(Sidecar(x)).access_count >=
             InitialAccessCount + (IF life[x].hits > 0 THEN 1 ELSE 0)

C7_Witness ==
    \E x \in ImageIds :
       /\ SettledRecord(x) /\ life[x].hits = 2
       /\ Record(Sidecar(x)).access_count = InitialAccessCount + 1

\* C8 as stated: every stored record has created_at <= last_accessed.
C8_Original ==
    \A k \in Keys : IsRecord(k) => Record(k).created_at <= Record(k).last_accessed

\* C9: every stored record has access_count >= 1.
C9_AccessCountPositive ==
    \A k \in Keys : IsRecord(k) => Record(k).access_count >= 1

C9_Witness ==
    \E k \in Keys : IsRecord(k) /\ Record(k).access_count = 2

\* C10: an upsert that read a parseable record writes it back with every
\* field unchanged when it is not an access event, whatever data and size
\* it was called with, and with access_count one more than read and
\* last_accessed set to its timestamp, nothing else changed, when it is.
C10_UpsertFrame ==
    /\ \A p \in Slots :
          req[p].pc \in {"md_upload", "get_download"} /\ req[p].parsed =>
             req[p].md = IF req[p].op = "GET"
                         THEN [req[p].rd EXCEPT
                                 !.access_count = req[p].rd.access_count + 1,
                                 !.last_accessed = req[p].now]
                         ELSE req[p].rd
    /\ resp.op \in {"POST", "PUT"} /\ resp.status = 201 /\ resp.parsed =>
          resp.md = resp.rd

C10_Witness ==
    /\ resp.op = "PUT" /\ resp.status = 201 /\ resp.parsed
    /\ resp.md = resp.rd
    /\ resp.rd.data # resp.data
    /\ resp.rd.access_count = 2

\* C11 as stated: the created_at of the record under a sidecar key that was
\* not deleted in between is the one of its first write, whatever create,
\* upload and GET image requests followed, reads that failed or found
\* unparseable content included.
C11_Original ==
    \A k \in SidecarKeys :
       IsRecord(k) /\ born[k].at # -1 => Record(k).created_at = born[k].at

\* C11 as amended: the created_at of the record under a sidecar key that was
\* not deleted in between is the one of its first write as long as every
\* upsert that wrote after the first had read the record; an upsert whose
\* read fails, or finds no record or unparseable content, writes a fresh
\* record whose created_at is its own timestamp.
C11_CreatedAtKept ==
    /\ \A k \in SidecarKeys :
          IsRecord(k) /\ born[k].at # -1 /\ born[k].kept =>
             Record(k).created_at = born[k].at
    /\ \A p \in Slots :
          req[p].pc \in {"md_upload", "get_download"} /\ ~req[p].parsed =>
             req[p].md.created_at = req[p].now

C11_Witness ==
    \E k \in SidecarKeys :
       /\ IsRecord(k) /\ born[k].kept
       /\ Record(k).created_at = born[k].at
       /\ Record(k).last_accessed > Record(k).created_at
       /\ resp.op = "PUT" /\ resp.status = 201 /\ resp.parsed
       /\ Sidecar(resp.code_id) = k

\* C12 as stated: at the step a DELETE answers 204, no sidecar record of its
\* code_id is left in the store.
C12_Original ==
    [][\A p \in Slots :
         (DelMdExists(p) \/ DelMd(p)) /\ resp'.status = 204 =>
            ~IsRecord(Sidecar(req[p].code_id))']_vars

\* the blob under k is an image a create or upload stored
IsImage(k) == Lookup(k).kind = "png"

\* C13 as stated, for the runs without storage errors: once no request is
\* in flight, every code_id whose image is stored has its sidecar record.
C13_Original ==
    (\A q \in Slots : ~Busy(q)) /\ nfaults = 0 =>
       \A x \in ImageIds : IsImage(x) => IsRecord(Sidecar(x))

\* C14 as stated, for the runs without storage errors: a sidecar key under
\* which update_metadata has written a record, and which was not deleted
\* since, holds what update_metadata wrote: no handler has put image bytes
\* there.
C14_Original ==
    nfaults = 0 => \A k \in SidecarKeys : born[k].at # -1 => ~IsImage(k)

\* C15 as stated: a metadata fetch addressed with the code_id a create
\* returned, made alone with no storage error while the create's image and
\* record are in place, reads the record create wrote: it answers 200.
C15_Original ==
    /\ resp.op = "META" /\ resp.solo /\ nfaults = 0
    /\ \E u \in issued : /\ resp.code_id = UuidPng(u)
                         /\ life[UuidPng(u)].st = "clean"
    => resp.status = 200

\* C16 as stated, for the GET image requests made with no other request on
\* the blobs of the code_id in flight: one that answers 404 has written no
\* Metadata Record, it changed none and created none.
C16_Original ==
    resp.op = "GET" /\ resp.solo /\ resp.status = 404 => resp.wrote = 0

C18_Original ==
    /\ resp.op = "META" /\ resp.solo /\ nfaults = 0
    /\ \E x \in CallerIds : /\ resp.code_id = StripPng(x)
                            /\ life[x].st = "clean" /\ ~life[x].fresh
    => resp.status = 200

\* C19 as stated: a request is served only by a process whose initialize()
\* reached the backend and found or created the container.
C19_Original ==
    nreq > 0 => boot.cond \in {"created", "exists"}

\* C20 as stated, for the states with no request in flight in runs without
\* storage errors: two distinct code_ids whose images are stored have
\* distinct sidecar keys.
C20_Original ==
    (\A q \in Slots : ~Busy(q)) /\ nfaults = 0 =>
       \A x, y \in ImageIds :
          x # y /\ IsImage(x) /\ IsImage(y) => Sidecar(x) # Sidecar(y)

\* C21 as stated: with no storage error and no DELETE request, a write of a
\* record never stores an access_count below the one it replaces, however
\* the GET image requests interleave.
C21_Original ==
    [][nfaults' = 0 /\ ~deleted' =>
         \A k \in SidecarKeys :
            IsRecord(k) /\ IsRecord(k)' =>
               Record(k)'.access_count >= Record(k).access_count]_vars

\* C21 as amended: with no storage error and no DELETE request, the write of
\* a GET image stores one more than the access_count its request read; that
\* is more than the count it replaces when no other request on the blobs of
\* the code_id was in flight with it, and can be less when GET image
\* requests overlap, the last writer winning.
C21_CountPerWrite ==
    [][\A p \in Slots :
         /\ MdUpload(p) /\ req[p].op = "GET" /\ req[p].parsed
         /\ nfaults' = 0 /\ ~deleted'
         => LET k == Sidecar(req[p].code_id) IN
            /\ Record(k)'.access_count = req[p].rd.access_count + 1
            /\ req[p].solo /\ IsRecord(k) =>
                  Record(k)'.access_count > Record(k).access_count]_vars

\* the last GET image answered wrote 3, and the write of an overlapping one
\* has since put 2 in its place
C21_Witness ==
    /\ nfaults = 0 /\ ~deleted
    /\ resp.op = "GET" /\ resp.status = 200 /\ resp.code_id = CreatedId
    /\ resp.md.access_count = 3
    /\ IsRecord(Sidecar(CreatedId))
    /\ Record(Sidecar(CreatedId)).access_count = 2

====
